---- MODULE Spec2Model ----
(***************************************************************************)
(* A model of typers (src/app.rs, src/app/words.rs, src/args.rs): the      *)
(* typing session App, its run loop and its key handling; and of the       *)
(* stopwatch Timer (src/app/timer.rs), which App does not use and which is *)
(* exercised by its own specification SpecTimer.                           *)
(*                                                                         *)
(* Text is a sequence of one-character strings.  Option<T> is a sequence   *)
(* of length at most one: <<>> is None and <<x>> is Some(x).  An f64 that  *)
(* the code computes as a quotient is the record [num, den] of the exact   *)
(* quotient.  Instants are whole milliseconds on the clock `now`.          *)
(***************************************************************************)
EXTENDS Integers, Sequences, FiniteSets, TLC

\* ---------------------------------------------------------------- bounds
\* largest value of --words that is explored (Args.words is 0..MaxWords)
MaxWords == 4
\* the clock `now` stops advancing at MaxTime
MaxTime == 2
\* the same for the clock under the calls of a Timer
MaxTimerTime == 3

\* ------------------------------------------------------------ the corpus
\* words/en1000 cut down to three lines
WORDS == << <<"c","a","t">>, <<"d","o","g">>, <<"g","o">> >>

\* a character that is typed by mistake
SlipChars == {"c"}

None == <<>>
Some(x) == <<x>>

VARIABLES
  start,       \* App.start: Option<Instant>
  state,       \* App.state
  first_draw,  \* App.first_draw
  args,        \* App.args
  typed,       \* App.typed
  words,       \* App.words
  now,         \* the monotonic clock read by Instant::now()
  pc,          \* position of App::run
  event,       \* the event last returned by event::read()
  frame,       \* what the last terminal.draw() rendered
  timer,       \* a Timer: [start: Option<Instant>, end: Option<Duration>]
  timer_call,  \* the method of Timer called last
  timer_out    \* what that call returned: [ok, value], ok FALSE for a panic

\* the fields of App and the state of its run loop, the clock aside
app_vars == <<start, state, first_draw, args, typed, words, pc, event, frame>>

timer_vars == <<timer, timer_call, timer_out>>

vars == <<start, state, first_draw, args, typed, words, now, pc, event, frame,
          timer, timer_call, timer_out>>

\* ------------------------------------------------------- Words::generate
\* IteratorRandom::choose_multiple: the reservoir holds the first n lines;
\* every later line i (1-based) draws k in 0..i-1 and replaces slot k when
\* the reservoir has such a slot.
RECURSIVE choose_multiple(_, _)
choose_multiple(reservoir, i) ==
  IF i > Len(WORDS) THEN {reservoir}
  ELSE UNION { choose_multiple(
                 IF k <= Len(reservoir)
                   THEN [reservoir EXCEPT ![k] = WORDS[i]]
                   ELSE reservoir,
                 i + 1) : k \in 1..i }

Min(a, b) == IF a < b THEN a ELSE b

\* sampling with replacement: every slot drawn from the whole corpus
generate_with_replacement(n) ==
  [1..Min(n, Len(WORDS)) -> {WORDS[i] : i \in 1..Len(WORDS)}]

\* a request larger than the corpus served by going round the corpus again
generate_padded(n) ==
  IF n > Len(WORDS)
    THEN {[i \in 1..n |-> WORDS[((i - 1) % Len(WORDS)) + 1]]}
    ELSE choose_multiple(SubSeq(WORDS, 1, n), n + 1)

\* the set of results Words::generate(n) can return
generate(n) ==
  choose_multiple(SubSeq(WORDS, 1, Min(n, Len(WORDS))), n + 1)

\* --------------------------------------------------------------- helpers
\* [&str]::join(" ")
RECURSIVE join(_)
join(ws) ==
  IF Len(ws) = 0 THEN <<>>
  ELSE IF Len(ws) = 1 THEN ws[1]
  ELSE ws[1] \o <<" ">> \o join(Tail(ws))

\* App::words(): the target text
words_text == join(words)

\* App::is_finished
is_finished(t, w) == Len(t) >= Len(join(w))

\* zip that loses the last pair
zip_short(t, w) == [i \in 1..(Min(Len(t), Len(w)) - 1) |-> <<t[i], w[i]>>]

\* typed.iter().zip(words.chars()): pairs up to the shorter length
zip(t, w) == [i \in 1..Min(Len(t), Len(w)) |-> <<t[i], w[i]>>]

\* .filter(|(c, target)| *c == target).collect().len()
RECURSIVE filter_count(_)
filter_count(pairs) ==
  IF Len(pairs) = 0 THEN 0
  ELSE (IF pairs[1][1] = pairs[1][2] THEN 1 ELSE 0) + filter_count(Tail(pairs))

\* App::accuracy
accuracy(t, w) ==
  [num |-> filter_count(zip(t, join(w))) * 100, den |-> Len(join(w))]

\* Instant::elapsed of the start instant
elapsed == now - start[1]

\* App::time_ms
time_ms == elapsed

\* App::wpm: the word count is an integer division, the rest is f64
wpm == [num |-> (Len(words_text) \div 5) * 60 * 1000, den |-> elapsed]

\* a call of App::time_ms in the current state: start.unwrap() panics on
\* None, any other call returns
call_time_ms ==
  IF start = None THEN [ok |-> FALSE] ELSE [ok |-> TRUE, value |-> time_ms]

\* a call of App::wpm in the current state: start.unwrap() panics on None
call_wpm ==
  IF start = None THEN [ok |-> FALSE] ELSE [ok |-> TRUE, value |-> wpm]

\* a call of App::accuracy in the current state: it has no failing path
call_accuracy == [ok |-> TRUE, value |-> accuracy(typed, words)]

\* App::finish_screen
finish_screen ==
  [screen |-> "finish", title |-> Len(words), time |-> time_ms,
   wpm |-> wpm, accuracy |-> accuracy(typed, words)]

\* App::playing_screen: one span per typed character, white when it matches
\* the target and red when not, then the rest of the target unstyled
playing_screen ==
  LET target == words_text
      pairs  == zip(typed, target)
      spans  == [i \in 1..Len(pairs) |->
                   [text |-> pairs[i][2],
                    style |-> IF pairs[i][2] = pairs[i][1] THEN "white" ELSE "red"]]
  IN [screen |-> "playing", spans |-> spans,
      rest |-> SubSeq(target, Len(spans) + 1, Len(target)),
      cursor |-> first_draw]

NoFrame == [screen |-> "none"]
NoEvent == [event |-> "none"]

\* ------------------------------------------------------------ the inputs
\* the characters the typist may press: the one the target shows at the
\* cursor, or a slip
CharKeys ==
  LET target == words_text
  IN SlipChars \cup (IF Len(typed) < Len(target)
                       THEN {target[Len(typed) + 1]} ELSE {})

KeyCodes ==
  { <<"Esc">>, <<"Tab">>, <<"Backspace">> } \cup { <<"Char", c>> : c \in CharKeys }

Events ==
  { [event |-> "Key", kind |-> k, code |-> c] : k \in {"Press", "Release"}, c \in KeyCodes }
  \cup { [event |-> "Resize"] }

\* Timer::default(): #[derive(Default)]
Timer_default == [start |-> None, end |-> None]

\* ------------------------------------------------------------------ Init
\* App::new followed by the entry of App::run
Init ==
  /\ args \in [words : 0..MaxWords]
  /\ words \in generate(args.words)
  /\ typed = <<>>
  /\ start = None
  /\ state = "Playing"
  /\ first_draw = TRUE
  /\ now = 0
  /\ pc = "while"
  /\ event = NoEvent
  /\ frame = NoFrame
  /\ timer = Timer_default
  /\ timer_call = "none"
  /\ timer_out = [ok |-> TRUE, value |-> None]

\* --------------------------------------------------------------- actions
\* time passes between two reads of the clock: before a frame is rendered
\* and while event::read() blocks
Tick ==
  /\ pc \in {"draw", "events"}
  /\ now < MaxTime
  /\ now' = now + 1
  /\ UNCHANGED <<start, state, first_draw, args, typed, words, pc, event, frame>>

\* the loop entered again without a test of the state
run_while_always ==
  /\ pc = "while"
  /\ pc' = "draw"
  /\ UNCHANGED <<start, state, first_draw, args, typed, words, now, event, frame>>

\* the loop testing for the wrong state
run_while_finished ==
  /\ pc = "while"
  /\ pc' = IF state # "Finished" THEN "draw" ELSE "done"
  /\ UNCHANGED <<start, state, first_draw, args, typed, words, now, event, frame>>

\* App::run: the loop condition `while self.state != State::Exit`
run_while ==
  /\ pc = "while"
  /\ pc' = IF state # "Exit" THEN "draw" ELSE "done"
  /\ UNCHANGED <<start, state, first_draw, args, typed, words, now, event, frame>>

\* App::run: terminal.draw(|frame| { self.draw(frame); first_draw = false })
\* App::draw panics on Exit (unreachable!) and finish_screen panics when
\* start is None (unwrap)
run_draw ==
  /\ pc = "draw"
  /\ IF state = "Exit" \/ (state = "Finished" /\ start = None)
       THEN /\ pc' = "panic"
            /\ UNCHANGED <<frame, first_draw>>
       ELSE /\ frame' = IF state = "Playing" THEN playing_screen ELSE finish_screen
            /\ first_draw' = FALSE
            /\ pc' = "events"
  /\ UNCHANGED <<start, state, args, typed, words, now, event>>

\* App::exit
exit ==
  /\ state' = "Exit"
  /\ UNCHANGED <<start, typed, words, first_draw>>

\* reset that keeps what was typed
reset_keeps_typed ==
  /\ words' \in generate(args.words)
  /\ typed' = typed
  /\ first_draw' = TRUE
  /\ UNCHANGED <<start, state>>

\* App::reset
reset ==
  /\ words' \in generate(args.words)
  /\ typed' = <<>>
  /\ first_draw' = TRUE
  /\ UNCHANGED <<start, state>>

\* the Char arm that never starts the clock
push_char_never_starts(c) ==
  /\ start' = start
  /\ typed' = Append(typed, c)
  /\ state' = IF is_finished(typed', words) THEN "Finished" ELSE state
  /\ UNCHANGED <<words, first_draw>>

\* the Char arm restarting the clock at every character
push_char_restarts(c) ==
  /\ start' = Some(now)
  /\ typed' = Append(typed, c)
  /\ state' = IF is_finished(typed', words) THEN "Finished" ELSE state
  /\ UNCHANGED <<words, first_draw>>

\* App::handle_key_event, the KeyCode::Char(c) arm
push_char(c) ==
  /\ start' = IF start = None THEN Some(now) ELSE start
  /\ typed' = Append(typed, c)
  /\ state' = IF is_finished(typed', words) THEN "Finished" ELSE state
  /\ UNCHANGED <<words, first_draw>>

\* the Playing arm with a Backspace that removes the last character
handle_key_playing_backspace(key_event) ==
  IF key_event.code = <<"Esc">> THEN exit
  ELSE IF key_event.code = <<"Tab">> THEN reset
  ELSE IF key_event.code[1] = "Char" THEN push_char(key_event.code[2])
  ELSE IF key_event.code = <<"Backspace">> /\ Len(typed) > 0
    THEN /\ typed' = SubSeq(typed, 1, Len(typed) - 1)
         /\ UNCHANGED <<start, state, first_draw, words>>
  ELSE UNCHANGED <<start, state, first_draw, typed, words>>

\* App::handle_key_event, the State::Playing arm
handle_key_playing(key_event) ==
  IF key_event.code = <<"Esc">> THEN exit
  ELSE IF key_event.code = <<"Tab">> THEN reset
  ELSE IF key_event.code[1] = "Char" THEN push_char(key_event.code[2])
  ELSE UNCHANGED <<start, state, first_draw, typed, words>>

\* the Finished arm restarting the session on Tab
handle_key_finished_resets(key_event) ==
  IF key_event.code = <<"Tab">>
    THEN /\ words' \in generate(args.words)
         /\ typed' = <<>>
         /\ first_draw' = TRUE
         /\ state' = "Playing"
         /\ UNCHANGED start
    ELSE exit

\* the Finished arm leaving only on Esc
handle_key_finished_esc(key_event) ==
  IF key_event.code = <<"Esc">> THEN exit
  ELSE UNCHANGED <<start, state, first_draw, typed, words>>

\* App::handle_key_event, the State::Finished arm
handle_key_finished(key_event) == exit

\* App::handle_key_event; the State::Exit arm is unreachable!()
handle_key_event(key_event) ==
  IF state = "Playing" THEN handle_key_playing(key_event) /\ pc' = "while"
  ELSE IF state = "Finished" THEN handle_key_finished(key_event) /\ pc' = "while"
  ELSE UNCHANGED <<start, state, first_draw, typed, words>> /\ pc' = "panic"

\* handle_events dispatching every key event, whatever its kind
handle_events_any_kind ==
  /\ pc = "events"
  /\ \E e \in Events :
       /\ event' = e
       /\ IF e.event = "Key"
            THEN handle_key_event(e)
            ELSE UNCHANGED <<start, state, first_draw, typed, words>> /\ pc' = "while"
  /\ UNCHANGED <<args, now, frame>>

\* App::handle_events: one event::read(), dispatched when it is a key press
handle_events ==
  /\ pc = "events"
  /\ \E e \in Events :
       /\ event' = e
       /\ IF e.event = "Key" /\ e.kind = "Press"
            THEN handle_key_event(e)
            ELSE UNCHANGED <<start, state, first_draw, typed, words>> /\ pc' = "while"
  /\ UNCHANGED <<args, now, frame>>

\* App::run; no Timer is touched by it
Next ==
  \/ Tick /\ UNCHANGED timer_vars
  \/ run_while /\ UNCHANGED timer_vars
  \/ run_draw /\ UNCHANGED timer_vars
  \/ handle_events /\ UNCHANGED timer_vars

Spec == Init /\ [][Next]_vars

\* ----------------------------------------------------------------- Timer
\* time passes between two calls of the Timer
Timer_tick ==
  /\ timer_out.ok
  /\ now < MaxTimerTime
  /\ now' = now + 1
  /\ UNCHANGED timer_vars

\* Timer::is_started
Timer_is_started ==
  /\ timer_out.ok
  /\ timer_call' = "is_started"
  /\ timer_out' = [ok |-> TRUE, value |-> Some(timer.start # None)]
  /\ UNCHANGED <<timer, now>>

\* start() that also forgets the captured duration
Timer_start_clears ==
  /\ timer_out.ok
  /\ timer_call' = "start"
  /\ timer' = [start |-> Some(now), end |-> None]
  /\ timer_out' = [ok |-> TRUE, value |-> None]
  /\ UNCHANGED now

\* Timer::start
Timer_start ==
  /\ timer_out.ok
  /\ timer_call' = "start"
  /\ timer' = [timer EXCEPT !.start = Some(now)]
  /\ timer_out' = [ok |-> TRUE, value |-> None]
  /\ UNCHANGED now

\* Timer::end: expect() panics when start is None
Timer_end ==
  /\ timer_out.ok
  /\ timer_call' = "end"
  /\ IF timer.start = None
       THEN /\ timer_out' = [ok |-> FALSE, value |-> None]
            /\ UNCHANGED timer
       ELSE /\ timer' = [timer EXCEPT !.end = Some(now - timer.start[1])]
            /\ timer_out' = [ok |-> TRUE, value |-> None]
  /\ UNCHANGED now

\* Timer::duration: expect() panics when end is None
Timer_duration ==
  /\ timer_out.ok
  /\ timer_call' = "duration"
  /\ timer_out' = IF timer.end = None
                    THEN [ok |-> FALSE, value |-> None]
                    ELSE [ok |-> TRUE, value |-> timer.end]
  /\ UNCHANGED <<timer, now>>

\* any sequence of calls on one Timer, until one panics
NextTimer ==
  \/ Timer_tick /\ UNCHANGED app_vars
  \/ Timer_is_started /\ UNCHANGED app_vars
  \/ Timer_start /\ UNCHANGED app_vars
  \/ Timer_end /\ UNCHANGED app_vars
  \/ Timer_duration /\ UNCHANGED app_vars

\* a fresh Timer next to one App as constructed, whose word count does not
\* matter to the Timer
InitTimer == Init /\ args.words = MaxWords

SpecTimer == InitTimer /\ [][NextTimer]_vars

\* ------------------------------------------------------ steps and events
Press(code) == [event |-> "Key", kind |-> "Press", code |-> code]

\* a step of handle_events that read an event
ReadStep == pc = "events" /\ pc' # "events"

\* a step in which a key press was dispatched to handle_key_event
KeyPressStep == ReadStep /\ event'.event = "Key" /\ event'.kind = "Press"

\* a step in which a press of a printable character was dispatched
CharStep == KeyPressStep /\ event'.code[1] = "Char"

\* a step in which a press of Tab (the reset command) was dispatched
TabStep == KeyPressStep /\ event'.code = <<"Tab">>

\* a step in which a press of Esc (the exit command) was dispatched
EscStep == KeyPressStep /\ event'.code = <<"Esc">>

CatDog == <<"c","a","t"," ","d","o","g">>
CatCog == <<"c","a","t"," ","c","o","g">>

\* ---------------------------------------------------------------- claims

\* C1: in every reachable state the typed buffer is no longer than the
\* target text, and is_finished() is true exactly when the two lengths are
\* equal.
C1_TypedWithinTarget ==
  /\ Len(typed) <= Len(words_text)
  /\ (is_finished(typed, words) <=> Len(typed) = Len(words_text))

\* C2: in every reachable state other than Exit, the state is Finished if
\* and only if the typed buffer has the length of the target text.
C2_FinishedIffComplete ==
  state # "Exit" => (state = "Finished" <=> Len(typed) = Len(words_text))

\* C3: every reset (a Tab press handled in Playing) leaves the clock start
\* unset.
C3_ResetClearsClock ==
  [][(TabStep /\ state = "Playing") => start' = None]_vars

\* C4: a Tab press handled in Playing regenerates the target text with the
\* configured word count, empties the typed buffer, leaves the state Playing
\* and leaves the configured word count unchanged.
C4_ResetInPlaying ==
  [][(TabStep /\ state = "Playing") =>
        /\ words' \in generate(args.words)
        /\ Len(words') = Min(args.words, Len(WORDS))
        /\ typed' = <<>>
        /\ state' = "Playing"
        /\ args' = args]_vars

\* C4 witness: a reset has just been handled after characters were typed.
C4_Witness ==
  /\ event = Press(<<"Tab">>)
  /\ pc = "while"
  /\ state = "Playing"
  /\ start # None
  /\ typed = <<>>
  /\ Len(words_text) > 0

\* C5 as stated: a Tab press handled in Finished puts the state back to
\* Playing with a fresh target text and an empty typed buffer (stated for
\* the sessions of a word count of at least one).
C5_ResetInFinished ==
  [][(TabStep /\ state = "Finished" /\ args.words >= 1) =>
        /\ state' = "Playing"
        /\ words' \in generate(args.words)
        /\ typed' = <<>>]_vars

\* C5 as amended: a Tab press handled in Finished is not a reset; it ends
\* the session (state Exit) and leaves the target text, the typed buffer and
\* the clock start as they were.
C5_TabInFinishedExits ==
  [][(TabStep /\ state = "Finished") =>
        /\ state' = "Exit"
        /\ words' = words
        /\ typed' = typed
        /\ start' = start]_vars

\* C5 witness: Tab was pressed on the finish screen of a completed text.
C5_Witness ==
  /\ event = Press(<<"Tab">>)
  /\ state = "Exit"
  /\ frame.screen = "finish"
  /\ Len(typed) = Len(words_text)
  /\ Len(typed) > 0

\* C6: once Finished, every render of the finish screen reports the same
\* elapsed time (time_ms, and the elapsed time under wpm), however much time
\* has passed since the last render (stated for the sessions of a word count
\* of at least one).
C6_DurationFixed ==
  [][(frame.screen = "finish" /\ frame'.screen = "finish" /\ args.words >= 1) =>
        /\ frame'.time = frame.time
        /\ frame'.wpm = frame.wpm]_vars

\* C7: the clock start is unset at first, is set (to the current instant) by
\* the first printable character accepted in Playing and by nothing else,
\* and once set is never overwritten.
C7_ClockStartsOnce ==
  /\ start = None
  /\ [][/\ (start # None => start' = start)
        /\ (start' # start => (CharStep /\ state = "Playing" /\ start' = Some(now)))
        /\ ((CharStep /\ state = "Playing") => start' # None)
        /\ ((EscStep \/ (KeyPressStep /\ event'.code = <<"Backspace">>)) =>
               start' = start)]_vars

\* C7 witness: a later character was accepted after the clock had started
\* at an earlier instant.
C7_Witness ==
  /\ event.event = "Key"
  /\ event.kind = "Press"
  /\ event.code[1] = "Char"
  /\ Len(typed) >= 2
  /\ start # None
  /\ start[1] < now
  /\ pc = "while"

\* C8: in Finished, every key press, whatever its key, moves the state to
\* Exit and leaves the typed buffer and the target text unchanged.
C8_AnyKeyLeavesFinished ==
  [][(KeyPressStep /\ state = "Finished") =>
        /\ state' = "Exit"
        /\ typed' = typed
        /\ words' = words]_vars

\* C8 witness: a key that Playing ignores dismissed the finish screen.
C8_Witness ==
  /\ event = Press(<<"Backspace">>)
  /\ state = "Exit"
  /\ frame.screen = "finish"
  /\ Len(typed) > 0

\* C9: an Esc press handled in Playing moves the state to Exit whatever the
\* session holds, and once the state is Exit the run loop reads no further
\* event, renders nothing and changes no session field.
C9_ExitTerminal ==
  [][/\ ((EscStep /\ state = "Playing") => state' = "Exit")
     /\ (state = "Exit" =>
           /\ UNCHANGED <<start, state, first_draw, args, typed, words, event, frame>>
           /\ pc' \in {"while", "done"})]_vars

\* C9 witness: Esc was pressed in the middle of a text, after the clock had
\* started, and the run loop has returned.
C9_Witness ==
  /\ event = Press(<<"Esc">>)
  /\ state = "Exit"
  /\ pc = "done"
  /\ start # None
  /\ Len(typed) > 0
  /\ Len(typed) < Len(words_text)
  /\ frame.screen = "playing"

\* C10: accuracy() is 100 * (number of typed positions that hold the
\* target's character) / len(target); a text typed exactly has len(target)
\* matches, "cat cog" against "cat dog" has 6 of 7, and the playing screen
\* marks a position correct exactly when it matches.
C10_Accuracy ==
  LET target == words_text
      acc    == accuracy(typed, words)
      spans  == playing_screen.spans
  IN /\ acc = [num |-> 100 * Cardinality({i \in 1..Len(typed) :
                            i <= Len(target) /\ typed[i] = target[i]}),
               den |-> Len(target)]
     /\ (typed = target => acc.num = 100 * Len(target))
     /\ ((target = CatDog /\ typed = CatCog) => acc = [num |-> 600, den |-> 7])
     /\ \A i \in DOMAIN spans :
           (spans[i].style = "white") <=> (typed[i] = target[i])
     /\ ((frame.screen = "finish" /\ state = "Finished") => frame.accuracy = acc)

\* C10 witness: the finish screen shows the accuracy of "cat cog" typed
\* against "cat dog".
C10_Witness ==
  /\ state = "Finished"
  /\ frame.screen = "finish"
  /\ words_text = CatDog
  /\ typed = CatCog
  /\ frame.accuracy = [num |-> 600, den |-> 7]

\* C11: the words-per-minute shown on the finish screen is
\* (len(target) / 5) / elapsed_seconds * 60 with len(target) / 5 the exact
\* quotient, i.e. wpm * 5 * elapsed_ms = len(target) * 60 * 1000 (stated for
\* the sessions of a word count of at least one).
C11_WpmExactQuotient ==
  (frame.screen = "finish" /\ args.words >= 1) =>
     frame.wpm.num * 5 = Len(words_text) * 60 * 1000

\* r consists of corpus entries, each entry taken at most once
FromDistinctEntries(r) ==
  \E idx \in [1..Len(r) -> 1..Len(WORDS)] :
     /\ \A a, b \in 1..Len(r) : a # b => idx[a] # idx[b]
     /\ \A j \in 1..Len(r) : r[j] = WORDS[idx[j]]

\* C12: when the configured word count n does not exceed the corpus size,
\* every result of Words::generate(n) (at construction and at every reset)
\* has exactly n words, each taken from a distinct corpus entry.
C12_GenerateDistinct ==
  args.words <= Len(WORDS) =>
     /\ Len(words) = args.words
     /\ FromDistinctEntries(words)

\* C12 witness: a reset drew two words of which the first replaced a
\* reservoir slot, so that the result is not in corpus order.
C12_Witness ==
  /\ args.words = 2
  /\ event = Press(<<"Tab">>)
  /\ pc = "while"
  /\ words = <<WORDS[3], WORDS[2]>>

\* C13: when the configured word count exceeds the corpus size, generate
\* does not fail and returns exactly corpus-size words, each corpus entry
\* once; the session built on it keeps the typed buffer within the target and
\* is Finished exactly when the lengths are equal.
C13_GenerateBeyondCorpus ==
  args.words > Len(WORDS) =>
     /\ pc # "panic"
     /\ Len(words) = Len(WORDS)
     /\ FromDistinctEntries(words)
     /\ Len(typed) <= Len(words_text)
     /\ (state # "Exit" => (state = "Finished" <=> Len(typed) = Len(words_text)))

\* C13 witness: a session asked for more words than the corpus holds was
\* typed to completion.
C13_Witness ==
  /\ args.words > Len(WORDS)
  /\ state = "Finished"
  /\ frame.screen = "finish"
  /\ Len(words) = Len(WORDS)
  /\ Len(typed) = Len(words_text)

\* C14: before the session is Finished, a call of time_ms, of wpm or of
\* accuracy fails; none of them returns a value.
C14_MetricsFailBeforeFinished ==
  state = "Playing" =>
     /\ ~call_time_ms.ok
     /\ ~call_wpm.ok
     /\ ~call_accuracy.ok

\* C15: a word count of zero is rejected when the session is built: no
\* session has an empty target text, and none is Playing with the completion
\* predicate already true before a character was typed.
C15_ZeroWordsRejected ==
  /\ Len(words_text) > 0
  /\ ((state = "Playing" /\ typed = <<>>) => ~is_finished(typed, words))

\* C16: a printable character accepted in Playing is appended to the typed
\* buffer as it is, the earlier entries staying as they were, and the buffer
\* is changed by no step other than such a character or a reset (a Tab
\* press in Playing); Backspace in particular leaves it alone.
C16_TypedAppendOnly ==
  [][/\ ((CharStep /\ state = "Playing") =>
           /\ Len(typed') = Len(typed) + 1
           /\ typed'[Len(typed')] = event'.code[2]
           /\ SubSeq(typed', 1, Len(typed)) = typed)
     /\ (typed' # typed =>
           ((CharStep \/ TabStep) /\ state = "Playing"))
     /\ ((KeyPressStep /\ event'.code = <<"Backspace">>) => typed' = typed)]_vars

\* C16 witness: Backspace was pressed in Playing on a buffer of several
\* characters, which are still there.
C16_Witness ==
  /\ event = Press(<<"Backspace">>)
  /\ state = "Playing"
  /\ pc = "while"
  /\ Len(typed) >= 2

\* a step that read an event which is not a key press
NonPressStep == ReadStep /\ ~(event'.event = "Key" /\ event'.kind = "Press")

\* a step in which a key press that is no character, Tab or Esc was dispatched
OtherKeyStep ==
  /\ KeyPressStep
  /\ event'.code[1] # "Char"
  /\ event'.code # <<"Tab">>
  /\ event'.code # <<"Esc">>

\* C17: in Playing a press of a key that is no printable character, Tab or
\* Esc leaves state, target text, typed buffer and clock start unchanged; an
\* event that is not a key press leaves every session field unchanged and
\* only the next render follows; the target text is changed by nothing but
\* a reset.
C17_IgnoredInput ==
  [][/\ ((OtherKeyStep /\ state = "Playing") =>
           UNCHANGED <<state, words, typed, start>>)
     /\ (NonPressStep =>
           /\ UNCHANGED <<start, state, first_draw, args, typed, words>>
           /\ pc' = "while")
     /\ (words' # words => (TabStep /\ state = "Playing"))]_vars

\* C17 witness: the release of Tab was read in the middle of a text and
\* nothing was reset.
C17_Witness ==
  /\ event = [event |-> "Key", kind |-> "Release", code |-> <<"Tab">>]
  /\ state = "Playing"
  /\ pc = "while"
  /\ Len(typed) > 0
  /\ start # None

\* C18: whenever the state is Finished the clock start is Some, so that the
\* start.unwrap() of time_ms and of wpm on the finish screen does not panic.
C18_FinishedHasStart ==
  state = "Finished" =>
     /\ start # None
     /\ call_time_ms.ok
     /\ call_wpm.ok

\* C18 witness: the finish screen was rendered, with a positive time, from a
\* started clock.
C18_Witness ==
  /\ state = "Finished"
  /\ pc = "events"
  /\ frame.screen = "finish"
  /\ start # None
  /\ frame.time > 0

\* C19: the run loop never renders and never reads an event while the state
\* is Exit, and no unreachable!() arm (nor any other panic) is executed.
C19_UnreachableArms ==
  /\ (pc \in {"draw", "events"} => state # "Exit")
  /\ pc # "panic"

\* C19 witness: the finish screen was dismissed by a character key and the
\* loop returned without another render.
C19_Witness ==
  /\ state = "Exit"
  /\ pc = "done"
  /\ frame.screen = "finish"
  /\ event.event = "Key"
  /\ event.kind = "Press"
  /\ event.code[1] = "Char"

\* a step that is a call of the named method of Timer
TimerCall(method) == timer_call' = method /\ now' = now /\ timer_out.ok

\* C20: end() panics when start() was never called, duration() panics when
\* end() was never called, and otherwise duration() returns the duration
\* that the last end() captured (the time since the start then in force),
\* which no call of start() changes.
C20_TimerCallOrder ==
  [][/\ ((TimerCall("end") /\ timer.start = None) =>
           (~timer_out'.ok /\ timer' = timer))
     /\ ((TimerCall("duration") /\ timer.end = None) => ~timer_out'.ok)
     /\ ((TimerCall("duration") /\ timer.end # None) =>
           timer_out' = [ok |-> TRUE, value |-> timer.end])
     /\ (TimerCall("start") => timer'.end = timer.end)
     /\ (timer'.end # timer.end =>
           /\ TimerCall("end")
           /\ timer.start # None
           /\ timer'.end = Some(now - timer.start[1]))]_vars

\* C20 witness: duration() returned the captured duration after start()
\* had been called again later than the end() that captured it.
C20_Witness ==
  /\ timer_call = "duration"
  /\ timer.start # None
  /\ timer.end # None
  /\ timer_out = [ok |-> TRUE, value |-> timer.end]
  /\ timer.end[1] > 0
  /\ timer.start[1] + timer.end[1] > now

====
